---- MODULE Spec2Model ----
(***************************************************************************)
(* Customer-churn platform: the ETL pipeline writing the feature_store     *)
(* table (backend/data_pipeline/etl.py), driven by the HTTP handlers of    *)
(* backend/app.py, and the predictor objects                               *)
(* (backend/models/churn_predictor.py).                                    *)
(*                                                                         *)
(* Part I  (SpecETL): the relational tables and the pipeline runs.  Every  *)
(* request runs run_etl_pipeline in its own connection; the statements of  *)
(* load_features (DELETE, INSERT, COMMIT) are separate steps, so that runs *)
(* of concurrent requests interleave as they do in the threaded server.    *)
(***************************************************************************)
EXTENDS Integers, Sequences, FiniteSets, TLC

\* ------------------------------------------------------------------ bounds
MaxCustomers == 2
MaxChurnEvents == 2
MaxDate == 2
MaxRuns == 2

CustomerIds == 1..MaxCustomers
Dates == 1..MaxDate

\* The two handlers that run the pipeline: POST /api/etl/run and POST
\* /api/train, one request of each in flight.
Requests == {"run_etl", "train_models"}

VARIABLES
    \* --- relational store
    customers,      \* table customers: the set of customer_id present
    churn_events,   \* table churn_events: customer_id -> number of rows
    feature_store,  \* table feature_store: the committed rows
    today,          \* datetime.now().date()
    \* --- one pipeline run per HTTP request
    pc,             \* request -> position in run_etl_pipeline / load_features
    customer_df,    \* request -> result of extract_customer_data
    features_df,    \* request -> result of transform_features
    current_date,   \* request -> load_features' current_date
    txSnapshot,     \* request -> rows the DELETE statement saw when it started
    txDeleted,      \* request -> rows deleted (row-locked) by the open transaction
    txInserted,     \* request -> rows inserted by the open transaction
    response,       \* request -> what the last request on this slot returned
    run,            \* request -> number of its pipeline run (history)
    nRuns,          \* pipeline runs started so far (history)
    overlapped,     \* request -> another transaction was open during its own (history)
    lastCommit,     \* the last committed load_features run (history)
    rolledBack,     \* an insert failed after its DELETE had removed rows (history)
    \* --- GET /api/customers
    customer_list,  \* the last answer: the extract and the tables it was taken from
    \* --- the predictor objects and their artifacts
    churn_model,    \* the ChurnPredictor instance (app.py's global churn_model)
    clv_model,      \* the LifetimeValuePredictor instance (global clv_model)
    files,          \* models/churn_model.joblib and models/clv_model.joblib
    out,            \* what the last call or request returned or raised
    completed,      \* instance -> a train or load_model call has completed on it (history)
    saved,          \* the instance and its predictions when the artifact was written (history)
    bothTrained,    \* a training request has trained both models (history)
    \* --- usage records and the feature table built from them
    usage_metrics,  \* table usage_metrics: the set of its rows
    usage_df,       \* the last result of extract_usage_data, with its argument
    feature_table   \* the last result of transform_features, with its customer_df

etlVars == <<customers, churn_events, feature_store, today, pc, customer_df,
             features_df, current_date, txSnapshot, txDeleted, txInserted,
             response, run, nRuns, overlapped, lastCommit, rolledBack>>

extractVars == <<customer_list>>

modelVars == <<churn_model, clv_model, files, out, completed, saved, bothTrained>>

usageVars == <<usage_metrics, usage_df, feature_table>>

vars == <<etlVars, extractVars, modelVars, usageVars>>

\* What the pipeline steps leave alone.
outsideETL == <<extractVars, modelVars, usageVars>>

NoCommit == [run |-> 0, date |-> 0, rows |-> 0, seq |-> FALSE, replaced |-> FALSE]

\* ------------------------------------------------------- pure functions

RECURSIVE SumUpTo(_, _)
SumUpTo(f, n) == IF n = 0 THEN 0 ELSE f[n] + SumUpTo(f, n - 1)
NChurnEvents(events) == SumUpTo(events, MaxCustomers)

\* Rows of the LEFT JOIN for one customer: one row per matching churn_events
\* row (churned = 1), or a single row with churned = 0 when none matches.
JoinRows(c, events) ==
    IF events[c] = 0
    THEN << [customer_id |-> c, churned |-> 0] >>
    ELSE [k \in 1..events[c] |-> [customer_id |-> c, churned |-> 1]]

RECURSIVE JoinFrom(_, _, _)
JoinFrom(c, custs, events) ==
    IF c > MaxCustomers THEN << >>
    ELSE (IF c \in custs THEN JoinRows(c, events) ELSE << >>)
         \o JoinFrom(c + 1, custs, events)

\* SELECT ... FROM customers c LEFT JOIN churn_events ch ON c.customer_id =
\* ch.customer_id, called without a date range (as every caller does).
extract_customer_data(custs, events) == JoinFrom(1, custs, events)

\* transform_features keeps one feature row per row of the customer extract:
\* the usage aggregate has one row per customer_id and is left-merged.
transform_features(cdf) ==
    [k \in 1..Len(cdf) |-> [customer_id |-> cdf[k].customer_id,
                            churned |-> cdf[k].churned]]

\* The records load_features builds from the feature table, stamped with
\* current_date; r and k identify the run and the row (history).
FeatureRecords(fdf, d, r) ==
    { [customer_id |-> fdf[k].customer_id, feature_date |-> d,
       run |-> r, k |-> k] : k \in 1..Len(fdf) }

RowsOn(rows, d) == { x \in rows : x.feature_date = d }
RowsOf(rows, c, d) == { x \in rows : x.customer_id = c /\ x.feature_date = d }

InTransaction(w) == pc[w] \in {"load_delete", "load_insert", "load_commit"}
LockedByOther(w, x) == \E v \in Requests \ {w} : x \in txDeleted[v]

\* Rows a DELETE FROM feature_store WHERE feature_date = :date removes: those
\* its statement snapshot saw that are still there once their locks are free.
DeleteNothing(snapshot, store) == {}
DeleteTargets(snapshot, store) == snapshot \cap store

\* conn.commit(): the deletes and the inserts of the transaction become visible.
CommitWithoutInserts(store, deleted, inserted) == store \ deleted
CommitTransaction(store, deleted, inserted) == (store \ deleted) \cup inserted

\* Leaving "with engine.connect() as conn" on an exception closes the
\* connection without a commit: the open transaction is rolled back.
CloseKeepsDelete(store, deleted, inserted) == store \ deleted
CloseConnection(store, deleted, inserted) == store

NoResponse == "none"
NoList == [rows |-> << >>, count |-> 0, customers |-> {}, churn_events |-> << >>]

\* Contents of customers and churn_events a pipeline run may find: one
\* customer; two customers; one customer with two churn_events rows.
NoEvents == [c \in CustomerIds |-> 0]
PipelineTables ==
    { [customers |-> {1}, churn_events |-> NoEvents],
      [customers |-> {1, 2}, churn_events |-> NoEvents],
      [customers |-> {1}, churn_events |-> [NoEvents EXCEPT ![1] = 2]] }

ResetRun(w) ==
    /\ customer_df' = [customer_df EXCEPT ![w] = << >>]
    /\ features_df' = [features_df EXCEPT ![w] = << >>]
    /\ current_date' = [current_date EXCEPT ![w] = 0]
    /\ txSnapshot' = [txSnapshot EXCEPT ![w] = {}]
    /\ txDeleted' = [txDeleted EXCEPT ![w] = {}]
    /\ txInserted' = [txInserted EXCEPT ![w] = {}]
    /\ run' = [run EXCEPT ![w] = 0]

(***************************************************************************)
(* Part III: the predictor objects (models/churn_predictor.py), as values. *)
(***************************************************************************)

Range(q) == { q[k] : k \in 1..Len(q) }

\* A DataFrame: its columns in order, its number of rows, and the columns
\* that hold missing values.
NoTable == [cols |-> << >>, nrows |-> 0, nan |-> {}]

\* What run_etl_pipeline returns: the customer columns, the derived columns
\* and the churned flag.
PipelineOutput ==
    [cols |-> <<"customer_id", "total_charges", "tenure_days", "churned">>,
     nrows |-> 2, nan |-> {}]
\* A labelled table without total_charges, with missing tenure_days values.
NoChargesTable ==
    [cols |-> <<"customer_id", "tenure_days", "churned">>,
     nrows |-> 1, nan |-> {"tenure_days"}]
\* An unlabelled table (features posted to /api/predict), its columns in
\* another order, with missing total_charges values.
UnlabelledTable ==
    [cols |-> <<"customer_id", "tenure_days", "total_charges">>,
     nrows |-> 3, nan |-> {"total_charges"}]
Tables == {PipelineOutput, NoChargesTable, UnlabelledTable}
PipelineOutputs == {PipelineOutput}

ValidTypes == {"random_forest", "xgboost", "logistic_regression",
               "gradient_boosting", "neural_network"}
ScaledTypes == {"logistic_regression", "neural_network"}
\* model_type strings given to the constructor; "svm" is not supported.
TypeInputs == {"random_forest", "logistic_regression", "svm"}

ChurnExclude == {"customer_id", "customer_code", "churned", "churn_date",
                 "churn_reason", "signup_date"}
ClvExclude == ChurnExclude \cup {"total_charges"}

\* The first library call that raises during a train call, if any.
Faults == {"none", "start_run", "split", "fit", "log"}

\* feature_columns = None is the empty list here: every table has a feature column.
NoColumns == << >>
NoEstimator == [kind |-> "None", fitted |-> FALSE, cols |-> << >>, on |-> NoTable]
NewScaler == [fitted |-> FALSE, cols |-> << >>, on |-> NoTable]

\* The global before load_models has run, or after a constructor raised.
NoPredictor == [exists |-> FALSE, model_type |-> "", model |-> NoEstimator,
                scaler |-> NewScaler, feature_columns |-> NoColumns,
                is_trained |-> FALSE]

\* ChurnPredictor.__init__
NewPredictorTrained(mt) ==
    [exists |-> TRUE, model_type |-> mt, model |-> NoEstimator,
     scaler |-> NewScaler, feature_columns |-> NoColumns, is_trained |-> TRUE]
NewPredictor(mt) ==
    [exists |-> TRUE, model_type |-> mt, model |-> NoEstimator,
     scaler |-> NewScaler, feature_columns |-> NoColumns, is_trained |-> FALSE]

\* LifetimeValuePredictor.__init__ (no model_type attribute)
NewClvPredictor == NewPredictor("")

FeatureCols(df, exclude) == SelectSeq(df.cols, LAMBDA c : c \notin exclude)

\* prepare_features: feature_columns is overwritten on every call.
PrepareFeatures(p, df, exclude) ==
    [p EXCEPT !.feature_columns = FeatureCols(df, exclude)]

\* y = df[target] if target in df.columns else None
AlwaysHasTarget(df, target) == TRUE
HasTarget(df, target) == target \in Range(df.cols)

\* create_model's chain of model_type tests, down to the final else.
AnySupported(mt) == TRUE
IsSupported(mt) == mt \in ValidTypes

\* The messages of the two ValueErrors of ChurnPredictor.train and predict.
NotTrainedMessage == "Model must be trained before making predictions"
NoTargetMessage == "Target variable 'churned' not found in dataset"

NoError == [status |-> "ok", err |-> "", detail |-> ""]
\* A call that returns after logger.info(msg).
Logged(msg) == [status |-> "ok", err |-> "", detail |-> msg]
Raise(e, d) == [status |-> "error", err |-> e, detail |-> d]

FitScaler(p, df) ==
    [p EXCEPT !.scaler = [fitted |-> TRUE, cols |-> p.feature_columns, on |-> df]]
CreateEstimator(p, kind) ==
    [p EXCEPT !.model = [kind |-> kind, fitted |-> FALSE,
                         cols |-> << >>, on |-> NoTable]]
FitEstimator(p, df) ==
    [p EXCEPT !.model = [kind |-> p.model.kind, fitted |-> TRUE,
                         cols |-> p.feature_columns, on |-> df]]
MarkTrained(p) == [p EXCEPT !.is_trained = TRUE]

\* ChurnPredictor.train: the instance after the call and what the call
\* returned or raised.
ChurnTrain(p, df, fault) ==
    IF fault = "start_run" THEN [inst |-> p, res |-> Raise("TrackingError", "start_run")]
    ELSE LET p1 == PrepareFeatures(p, df, ChurnExclude) IN
    IF ~HasTarget(df, "churned")
    THEN [inst |-> p1, res |-> Raise("ValueError", NoTargetMessage)]
    ELSE IF fault = "split" THEN [inst |-> p1, res |-> Raise("ValueError", "train_test_split")]
    ELSE LET p2 == IF p1.model_type \in ScaledTypes THEN FitScaler(p1, df) ELSE p1 IN
    IF ~IsSupported(p2.model_type)
    THEN [inst |-> p2, res |-> Raise("Unsupported model type", p2.model_type)]
    ELSE LET p3 == CreateEstimator(p2, p2.model_type) IN
    IF fault = "fit" THEN [inst |-> p3, res |-> Raise("ValueError", "fit")]
    ELSE LET p4 == FitEstimator(p3, df) IN
    IF fault = "log" THEN [inst |-> p4, res |-> Raise("TrackingError", "log")]
    ELSE [inst |-> MarkTrained(p4), res |-> NoError]

\* LifetimeValuePredictor.train
ClvTrain(p, df, fault) ==
    LET p1 == PrepareFeatures(p, df, ClvExclude) IN
    IF ~HasTarget(df, "total_charges")
    THEN [inst |-> p1, res |-> Raise("ValueError", "Target variable 'total_charges' not found")]
    ELSE IF fault = "split" THEN [inst |-> p1, res |-> Raise("ValueError", "train_test_split")]
    ELSE LET p2 == FitScaler(p1, df)
             p3 == CreateEstimator(p2, "random_forest_regressor") IN
    IF fault = "fit" THEN [inst |-> p3, res |-> Raise("ValueError", "fit")]
    ELSE [inst |-> MarkTrained(FitEstimator(p3, df)), res |-> NoError]

\* The guard at the head of predict and save_model.
NoTrainedCheck(p) == TRUE
RequireTrained(p) == p.is_trained

NoValue == [n |-> 0, cols |-> << >>, zero |-> {}, scaled |-> FALSE]

\* predict after the is_trained guard: X[self.feature_columns].fillna(0),
\* the stored scaler where it applies, then the stored estimator.  A column
\* of feature_columns that X lacks is a KeyError; a scaler or estimator that
\* is not fitted, or was fitted on other columns, raises.
Predicted(p, X, scaled) ==
    IF \E c \in Range(p.feature_columns) : c \notin Range(X.cols)
    THEN [res |-> Raise("KeyError", "not in index"), value |-> NoValue]
    ELSE IF scaled /\ (~p.scaler.fitted \/ p.scaler.cols # p.feature_columns)
    THEN [res |-> Raise("ValueError", "scaler.transform"), value |-> NoValue]
    ELSE IF p.model.kind = "None"
    THEN [res |-> Raise("AttributeError", "NoneType"), value |-> NoValue]
    ELSE IF ~p.model.fitted \/ p.model.cols # p.feature_columns
    THEN [res |-> Raise("ValueError", "estimator.predict"), value |-> NoValue]
    ELSE [res |-> NoError,
          value |-> [n |-> X.nrows, cols |-> p.feature_columns,
                     zero |-> X.nan \cap Range(p.feature_columns),
                     scaled |-> scaled]]

NotTrainedError ==
    [res |-> Raise("ValueError", NotTrainedMessage),
     value |-> NoValue]

\* ChurnPredictor.predict
ChurnPredictUnscaled(p, X) ==
    IF ~RequireTrained(p) THEN NotTrainedError
    ELSE Predicted(p, X, FALSE)
ChurnPredict(p, X) ==
    IF ~RequireTrained(p) THEN NotTrainedError
    ELSE Predicted(p, X, p.model_type \in ScaledTypes)

\* LifetimeValuePredictor.predict: always scales.
ClvPredict(p, X) ==
    IF ~RequireTrained(p) THEN NotTrainedError
    ELSE Predicted(p, X, TRUE)

\* save_model's model_data; joblib.dump writes it, joblib.load reads it back.
NoFile == [exists |-> FALSE, model |-> NoEstimator, scaler |-> NewScaler,
           feature_columns |-> NoColumns, model_type |-> ""]
Bundle(p) == [exists |-> TRUE, model |-> p.model, scaler |-> p.scaler,
              feature_columns |-> p.feature_columns, model_type |-> p.model_type]

\* load_model: the four attributes are taken from the bundle, is_trained set.
LoadedKeepingType(p, b) ==
    [p EXCEPT !.model = b.model, !.scaler = b.scaler,
              !.feature_columns = b.feature_columns, !.is_trained = TRUE]
Loaded(p, b) ==
    [p EXCEPT !.model = b.model, !.scaler = b.scaler,
              !.feature_columns = b.feature_columns,
              !.model_type = b.model_type, !.is_trained = TRUE]

\* What a call returns or raises: a predict call's value is the selected
\* columns, the zero-filled ones, whether the scaler was applied and the
\* number of results.
NoOut == [status |-> "none", err |-> "", detail |-> "", value |-> NoValue]
Out(res, value) ==
    [status |-> res.status, err |-> res.err, detail |-> res.detail, value |-> value]

InitModelVars ==
    /\ churn_model = NoPredictor
    /\ clv_model = NoPredictor
    /\ files = [churn |-> NoFile, clv |-> NoFile]
    /\ out = NoOut
    /\ completed = [churn |-> FALSE, clv |-> FALSE]
    /\ saved = NoPredictor
    /\ bothTrained = FALSE

NoUsage == [given |-> FALSE, ids |-> << >>, rows |-> << >>]
NoFeatures == [status |-> "none", customer_df |-> << >>, rows |-> << >>]

InitUsageVars ==
    /\ usage_metrics = {}
    /\ usage_df = NoUsage
    /\ feature_table = NoFeatures

\* ----------------------------------------------------------------- Init

InitETL ==
    /\ customers = {}
    /\ churn_events = NoEvents
    /\ feature_store = {}
    /\ today = 1
    /\ pc = [w \in Requests |-> "idle"]
    /\ customer_df = [w \in Requests |-> << >>]
    /\ features_df = [w \in Requests |-> << >>]
    /\ current_date = [w \in Requests |-> 0]
    /\ txSnapshot = [w \in Requests |-> {}]
    /\ txDeleted = [w \in Requests |-> {}]
    /\ txInserted = [w \in Requests |-> {}]
    /\ response = [w \in Requests |-> NoResponse]
    /\ run = [w \in Requests |-> 0]
    /\ nRuns = 0
    /\ overlapped = [w \in Requests |-> FALSE]
    /\ lastCommit = NoCommit
    /\ rolledBack = FALSE
    /\ customer_list = NoList
    /\ InitModelVars
    /\ InitUsageVars

\* Midnight passes.
Tick ==
    /\ today < MaxDate
    /\ today' = today + 1
    /\ UNCHANGED <<customers, churn_events, feature_store, pc, customer_df,
                   features_df, current_date, txSnapshot, txDeleted, txInserted,
                   response, run, nRuns, overlapped, lastCommit, rolledBack>>
    /\ UNCHANGED outsideETL

\* ------------------------------------------------------ run_etl_pipeline

\* POST /api/etl/run or POST /api/train: the handler creates a pipeline and
\* calls run_etl_pipeline.
StartPipeline(w) ==
    /\ pc[w] = "idle"
    /\ nRuns < MaxRuns
    /\ nRuns' = nRuns + 1
    /\ run' = [run EXCEPT ![w] = nRuns + 1]
    /\ pc' = [pc EXCEPT ![w] = "extract_customers"]
    /\ response' = [response EXCEPT ![w] = NoResponse]
    /\ UNCHANGED <<customers, churn_events, feature_store, today, customer_df,
                   features_df, current_date, txSnapshot, txDeleted, txInserted,
                   overlapped, lastCommit, rolledBack>>
    /\ UNCHANGED outsideETL

\* extract_customer_data() reads the tables as the other writers of the store
\* have left them: t is what the query finds.
ExtractCustomers(w) ==
    /\ pc[w] = "extract_customers"
    /\ \E t \in PipelineTables :
          /\ customers' = t.customers
          /\ churn_events' = t.churn_events
          /\ customer_df' = [customer_df EXCEPT ![w] =
                                extract_customer_data(t.customers, t.churn_events)]
    /\ pc' = [pc EXCEPT ![w] = "extract_usage"]
    /\ UNCHANGED <<feature_store, today, features_df,
                   current_date, txSnapshot, txDeleted, txInserted, response,
                   run, nRuns, overlapped, lastCommit, rolledBack>>
    /\ UNCHANGED outsideETL

ExtractUsage(w) ==
    /\ pc[w] = "extract_usage"
    /\ pc' = [pc EXCEPT ![w] = "transform"]
    /\ UNCHANGED <<customers, churn_events, feature_store, today, customer_df,
                   features_df, current_date, txSnapshot, txDeleted, txInserted,
                   response, run, nRuns, overlapped, lastCommit, rolledBack>>
    /\ UNCHANGED outsideETL

Transform(w) ==
    /\ pc[w] = "transform"
    /\ features_df' = [features_df EXCEPT ![w] = transform_features(customer_df[w])]
    /\ pc' = [pc EXCEPT ![w] = "load"]
    /\ UNCHANGED <<customers, churn_events, feature_store, today, customer_df,
                   current_date, txSnapshot, txDeleted, txInserted, response,
                   run, nRuns, overlapped, lastCommit, rolledBack>>
    /\ UNCHANGED outsideETL

\* load_features up to the point where the DELETE statement has started:
\* current_date is read, the connection opened, the statement takes its
\* snapshot of the committed rows (READ COMMITTED).
LoadBegin(w) ==
    /\ pc[w] = "load"
    /\ current_date' = [current_date EXCEPT ![w] = today]
    /\ txSnapshot' = [txSnapshot EXCEPT ![w] = RowsOn(feature_store, today)]
    /\ overlapped' = [v \in Requests |->
                        IF v = w THEN \E u \in Requests \ {w} : InTransaction(u)
                        ELSE IF InTransaction(v) THEN TRUE ELSE overlapped[v]]
    /\ pc' = [pc EXCEPT ![w] = "load_delete"]
    /\ UNCHANGED <<customers, churn_events, feature_store, today, customer_df,
                   features_df, txDeleted, txInserted, response, run, nRuns,
                   lastCommit, rolledBack>>
    /\ UNCHANGED outsideETL

\* The DELETE completes; it waits while another transaction holds the lock of
\* a row it has to delete.
LoadDelete(w) ==
    /\ pc[w] = "load_delete"
    /\ \A x \in txSnapshot[w] \cap feature_store : ~LockedByOther(w, x)
    /\ txDeleted' = [txDeleted EXCEPT ![w] =
                        DeleteTargets(txSnapshot[w], feature_store)]
    /\ pc' = [pc EXCEPT ![w] = "load_insert"]
    /\ UNCHANGED <<customers, churn_events, feature_store, today, customer_df,
                   features_df, current_date, txSnapshot, txInserted, response,
                   run, nRuns, overlapped, lastCommit, rolledBack>>
    /\ UNCHANGED outsideETL

\* feature_store_df.to_sql(..., if_exists='append') inside the open transaction.
LoadInsert(w) ==
    /\ pc[w] = "load_insert"
    /\ txInserted' = [txInserted EXCEPT ![w] =
                         FeatureRecords(features_df[w], current_date[w], run[w])]
    /\ pc' = [pc EXCEPT ![w] = "load_commit"]
    /\ UNCHANGED <<customers, churn_events, feature_store, today, customer_df,
                   features_df, current_date, txSnapshot, txDeleted, response,
                   run, nRuns, overlapped, lastCommit, rolledBack>>
    /\ UNCHANGED outsideETL

LoadCommit(w) ==
    /\ pc[w] = "load_commit"
    /\ feature_store' = CommitTransaction(feature_store, txDeleted[w], txInserted[w])
    /\ lastCommit' = [run |-> run[w], date |-> current_date[w],
                      rows |-> Len(features_df[w]),
                      seq |-> ~overlapped[w],
                      replaced |-> txDeleted[w] # {}]
    /\ txDeleted' = [txDeleted EXCEPT ![w] = {}]
    /\ txInserted' = [txInserted EXCEPT ![w] = {}]
    /\ pc' = [pc EXCEPT ![w] = "loaded"]
    /\ UNCHANGED <<customers, churn_events, today, customer_df, features_df,
                   current_date, txSnapshot, response, run, nRuns, overlapped,
                   rolledBack>>
    /\ UNCHANGED outsideETL

\* run_etl_pipeline returns the feature table and the handler answers.
Finish(w) ==
    /\ pc[w] = "loaded"
    /\ response' = [response EXCEPT ![w] = "success"]
    /\ pc' = [pc EXCEPT ![w] = "idle"]
    /\ ResetRun(w)
    /\ UNCHANGED <<customers, churn_events, feature_store, today, nRuns,
                   overlapped, lastCommit, rolledBack>>
    /\ UNCHANGED outsideETL

\* A statement raises (a storage error).  The exception leaves the with block,
\* which closes the connection; run_etl_pipeline logs and re-raises; the
\* handler answers with status 500.
StepFails(w) ==
    /\ pc[w] \in {"extract_customers", "extract_usage", "load_delete",
                  "load_insert", "load_commit"}
    /\ feature_store' = CloseConnection(feature_store, txDeleted[w], txInserted[w])
    /\ rolledBack' = (rolledBack \/ (pc[w] = "load_insert" /\ txDeleted[w] # {}))
    /\ response' = [response EXCEPT ![w] = "error"]
    /\ pc' = [pc EXCEPT ![w] = "idle"]
    /\ ResetRun(w)
    /\ UNCHANGED <<customers, churn_events, today, nRuns, overlapped, lastCommit>>
    /\ UNCHANGED outsideETL

NextETL ==
    \/ Tick
    \/ \E w \in Requests : StartPipeline(w)
    \/ \E w \in Requests : ExtractCustomers(w)
    \/ \E w \in Requests : ExtractUsage(w)
    \/ \E w \in Requests : Transform(w)
    \/ \E w \in Requests : LoadBegin(w)
    \/ \E w \in Requests : LoadDelete(w)
    \/ \E w \in Requests : LoadInsert(w)
    \/ \E w \in Requests : LoadCommit(w)
    \/ \E w \in Requests : Finish(w)
    \/ \E w \in Requests : StepFails(w)

SpecETL == InitETL /\ [][NextETL]_vars

(***************************************************************************)
(* Part II (SpecExtract): extract_customer_data as a function of the       *)
(* tables.  Init draws customers and churn_events from every content       *)
(* within the bounds; the store's other writers add rows; GET              *)
(* /api/customers applies the extract.                                     *)
(***************************************************************************)

EventTables ==
    { e \in [CustomerIds -> 0..MaxChurnEvents] : TRUE }

InitExtract ==
    /\ customers \in SUBSET CustomerIds
    /\ churn_events \in { e \in EventTables :
                            \A c \in CustomerIds : c \notin customers => e[c] = 0 }
    /\ feature_store = {}
    /\ today = 1
    /\ pc = [w \in Requests |-> "idle"]
    /\ customer_df = [w \in Requests |-> << >>]
    /\ features_df = [w \in Requests |-> << >>]
    /\ current_date = [w \in Requests |-> 0]
    /\ txSnapshot = [w \in Requests |-> {}]
    /\ txDeleted = [w \in Requests |-> {}]
    /\ txInserted = [w \in Requests |-> {}]
    /\ response = [w \in Requests |-> NoResponse]
    /\ run = [w \in Requests |-> 0]
    /\ nRuns = 0
    /\ overlapped = [w \in Requests |-> FALSE]
    /\ lastCommit = NoCommit
    /\ rolledBack = FALSE
    /\ customer_list = NoList
    /\ InitModelVars
    /\ InitUsageVars

pipelineVars == <<feature_store, today, pc, customer_df, features_df,
                  current_date, txSnapshot, txDeleted, txInserted, response,
                  run, nRuns, overlapped, lastCommit, rolledBack>>

\* A row is added to customers (the application's sign-up path).
Signup(c) ==
    /\ c \notin customers
    /\ customers' = customers \cup {c}
    /\ UNCHANGED <<churn_events, customer_list, pipelineVars, modelVars, usageVars>>

\* A row is added to churn_events for an existing customer.
RecordChurn(c) ==
    /\ c \in customers
    /\ churn_events[c] < MaxChurnEvents
    /\ churn_events' = [churn_events EXCEPT ![c] = @ + 1]
    /\ UNCHANGED <<customers, customer_list, pipelineVars, modelVars, usageVars>>

\* GET /api/customers: the extract as a list of records, and its length.
GetCustomers ==
    /\ LET df == extract_customer_data(customers, churn_events)
       IN customer_list' = [rows |-> df, count |-> Len(df),
                            customers |-> customers,
                            churn_events |-> churn_events]
    /\ UNCHANGED <<customers, churn_events, pipelineVars, modelVars, usageVars>>

NextExtract ==
    \/ \E c \in CustomerIds : Signup(c)
    \/ \E c \in CustomerIds : RecordChurn(c)
    \/ GetCustomers

SpecExtract == InitExtract /\ [][NextExtract]_vars

(***************************************************************************)
(* Part III (SpecModel): calls on the predictor objects and the requests   *)
(* of app.py that use them.  Each call is one step; the tables and the     *)
(* library failures are inputs.                                            *)
(***************************************************************************)

tableVars == <<customers, churn_events>>
outsideModel == <<tableVars, pipelineVars, extractVars, usageVars>>

\* ChurnPredictor(model_type): mlflow.set_experiment raises when tracking is
\* unavailable, and then no instance is bound.
Construct(mt, track) ==
    /\ IF track
       THEN /\ churn_model' = NewPredictor(mt)
            /\ completed' = [completed EXCEPT !.churn = FALSE]
            /\ out' = Out(NoError, NoValue)
       ELSE /\ out' = Out(Raise("TrackingError", "set_experiment"), NoValue)
            /\ UNCHANGED <<churn_model, completed>>
    /\ UNCHANGED <<clv_model, files, saved, bothTrained, outsideModel>>

\* LifetimeValuePredictor()
ClvConstruct ==
    /\ clv_model' = NewClvPredictor
    /\ completed' = [completed EXCEPT !.clv = FALSE]
    /\ out' = Out(NoError, NoValue)
    /\ UNCHANGED <<churn_model, files, saved, bothTrained, outsideModel>>

\* ChurnPredictor.prepare_features(df), called on its own.
CallPrepareFeatures(df) ==
    /\ churn_model.exists
    /\ churn_model' = PrepareFeatures(churn_model, df, ChurnExclude)
    /\ out' = Out(NoError, NoValue)
    /\ UNCHANGED <<clv_model, files, completed, saved, bothTrained, outsideModel>>

\* LifetimeValuePredictor.prepare_features(df), called on its own.
CallClvPrepareFeatures(df) ==
    /\ clv_model.exists
    /\ clv_model' = PrepareFeatures(clv_model, df, ClvExclude)
    /\ out' = Out(NoError, NoValue)
    /\ UNCHANGED <<churn_model, files, completed, saved, bothTrained, outsideModel>>

\* ChurnPredictor.train(df)
CallTrain(df, fault) ==
    /\ churn_model.exists
    /\ LET r == ChurnTrain(churn_model, df, fault)
       IN /\ churn_model' = r.inst
          /\ completed' = [completed EXCEPT !.churn = @ \/ r.res.status = "ok"]
          /\ out' = Out(r.res, NoValue)
    /\ UNCHANGED <<clv_model, files, saved, bothTrained, outsideModel>>

\* LifetimeValuePredictor.train(df)
CallClvTrain(df, fault) ==
    /\ clv_model.exists
    /\ LET r == ClvTrain(clv_model, df, fault)
       IN /\ clv_model' = r.inst
          /\ completed' = [completed EXCEPT !.clv = @ \/ r.res.status = "ok"]
          /\ out' = Out(r.res, NoValue)
    /\ UNCHANGED <<churn_model, files, saved, bothTrained, outsideModel>>

\* ChurnPredictor.predict(X)
CallPredict(X) ==
    /\ churn_model.exists
    /\ LET r == ChurnPredict(churn_model, X)
       IN out' = Out(r.res, r.value)
    /\ UNCHANGED <<churn_model, clv_model, files, completed, saved, bothTrained,
                   outsideModel>>

\* LifetimeValuePredictor.predict(X)
CallClvPredict(X) ==
    /\ clv_model.exists
    /\ LET r == ClvPredict(clv_model, X)
       IN out' = Out(r.res, r.value)
    /\ UNCHANGED <<churn_model, clv_model, files, completed, saved, bothTrained,
                   outsideModel>>

\* ChurnPredictor.save_model('models/churn_model.joblib')
CallSaveModel ==
    /\ churn_model.exists
    /\ IF RequireTrained(churn_model)
       THEN /\ files' = [files EXCEPT !.churn = Bundle(churn_model)]
            /\ saved' = churn_model
            /\ out' = Out(Logged("Model saved to"), NoValue)
       ELSE /\ out' = Out(Raise("ValueError", "Model must be trained before saving"), NoValue)
            /\ UNCHANGED <<files, saved>>
    /\ UNCHANGED <<churn_model, clv_model, completed, bothTrained, outsideModel>>

\* ChurnPredictor.load_model('models/churn_model.joblib')
CallLoadModel ==
    /\ churn_model.exists
    /\ IF files.churn.exists
       THEN /\ churn_model' = Loaded(churn_model, files.churn)
            /\ completed' = [completed EXCEPT !.churn = TRUE]
            /\ out' = Out(Logged("Model loaded from"), NoValue)
       ELSE /\ out' = Out(Raise("FileNotFoundError", "churn_model.joblib"), NoValue)
            /\ UNCHANGED <<churn_model, completed>>
    /\ UNCHANGED <<clv_model, files, saved, bothTrained, outsideModel>>

\* clv_model.save_model(...) / clv_model.load_model(...): the class defines
\* neither method, the call raises AttributeError.
CallClvSaveOrLoadModel ==
    /\ clv_model.exists
    /\ out' = Out(Raise("AttributeError", "LifetimeValuePredictor"), NoValue)
    /\ UNCHANGED <<churn_model, clv_model, files, completed, saved, bothTrained,
                   outsideModel>>

\* The process starts: the globals are None, then load_models() runs.  A
\* raising constructor or load is caught and logged.
ProcessStart(track) ==
    /\ IF ~track
       THEN /\ churn_model' = NoPredictor
            /\ clv_model' = NoPredictor
            /\ completed' = [churn |-> FALSE, clv |-> FALSE]
       ELSE /\ churn_model' = IF files.churn.exists
                              THEN Loaded(NewPredictor("random_forest"), files.churn)
                              ELSE NewPredictor("random_forest")
            /\ clv_model' = NewClvPredictor
            /\ completed' = [churn |-> files.churn.exists, clv |-> FALSE]
    /\ out' = Out(NoError, NoValue)
    /\ UNCHANGED <<files, saved, bothTrained, outsideModel>>

HttpError(code, res) == Raise(code, res.detail)

\* POST /api/train after run_etl_pipeline has returned df (or raised).
TrainModelsRequest(df, etl_ok, f1, f2) ==
    LET r1 == ChurnTrain(churn_model, df, f1)
        r2 == ClvTrain(clv_model, df, f2)
        churnOK == churn_model.exists /\ r1.res.status = "ok"
        churnDone == ~churn_model.exists \/ churnOK
        clvRuns == churnDone /\ clv_model.exists /\ "total_charges" \in Range(df.cols)
        clvOK == clvRuns /\ r2.res.status = "ok"
        trained == (IF churnOK THEN {"churn"} ELSE {}) \cup (IF clvOK THEN {"clv"} ELSE {})
    IN IF ~etl_ok
       THEN /\ out' = Out(Raise("HTTP 500", "run_etl_pipeline"), NoValue)
            /\ UNCHANGED <<churn_model, clv_model, files, completed, saved, bothTrained>>
            /\ UNCHANGED outsideModel
       ELSE /\ churn_model' = IF churn_model.exists THEN r1.inst ELSE churn_model
            /\ clv_model' = IF clvRuns THEN r2.inst ELSE clv_model
            /\ files' = IF churnOK THEN [files EXCEPT !.churn = Bundle(r1.inst)]
                        ELSE files
            /\ saved' = IF churnOK
                        THEN r1.inst
                        ELSE saved
            /\ completed' = [churn |-> completed.churn \/ churnOK,
                             clv |-> completed.clv \/ clvOK]
            /\ bothTrained' = (bothTrained \/ trained = {"churn", "clv"})
            /\ out' = Out(IF ~churnDone THEN HttpError("HTTP 500", r1.res)
                          ELSE IF clvRuns /\ ~clvOK THEN HttpError("HTTP 500", r2.res)
                          ELSE IF clvOK
                          THEN Raise("HTTP 500", "LifetimeValuePredictor has no save_model")
                          ELSE NoError,
                          NoValue)
            /\ UNCHANGED outsideModel

\* POST /api/predict/churn with the feature table X built from the request.
PredictChurnRequest(X) ==
    /\ LET r == ChurnPredict(churn_model, X)
       IN out' = IF ~churn_model.exists \/ ~churn_model.is_trained
                 THEN Out(Raise("HTTP 400", "Churn model not trained. Please train the model first."), NoValue)
                 ELSE IF r.res.status = "error"
                 THEN Out(HttpError("HTTP 500", r.res), NoValue)
                 ELSE Out(NoError, r.value)
    /\ UNCHANGED <<churn_model, clv_model, files, completed, saved, bothTrained,
                   outsideModel>>

\* POST /api/predict/clv
PredictClvRequest(X) ==
    /\ LET r == ClvPredict(clv_model, X)
       IN out' = IF ~clv_model.exists \/ ~clv_model.is_trained
                 THEN Out(Raise("HTTP 400", "CLV model not trained. Please train the model first."), NoValue)
                 ELSE IF r.res.status = "error"
                 THEN Out(HttpError("HTTP 500", r.res), NoValue)
                 ELSE Out(NoError, r.value)
    /\ UNCHANGED <<churn_model, clv_model, files, completed, saved, bothTrained,
                   outsideModel>>

InitModel ==
    /\ customers = {}
    /\ churn_events = NoEvents
    /\ feature_store = {}
    /\ today = 1
    /\ pc = [w \in Requests |-> "idle"]
    /\ customer_df = [w \in Requests |-> << >>]
    /\ features_df = [w \in Requests |-> << >>]
    /\ current_date = [w \in Requests |-> 0]
    /\ txSnapshot = [w \in Requests |-> {}]
    /\ txDeleted = [w \in Requests |-> {}]
    /\ txInserted = [w \in Requests |-> {}]
    /\ response = [w \in Requests |-> NoResponse]
    /\ run = [w \in Requests |-> 0]
    /\ nRuns = 0
    /\ overlapped = [w \in Requests |-> FALSE]
    /\ lastCommit = NoCommit
    /\ rolledBack = FALSE
    /\ customer_list = NoList
    /\ InitModelVars
    /\ InitUsageVars

\* Calls on a ChurnPredictor of any model_type and on its artifact.
NextModel ==
    \/ \E mt \in TypeInputs, track \in BOOLEAN : Construct(mt, track)
    \/ \E df \in Tables : CallPrepareFeatures(df)
    \/ \E df \in Tables, fault \in Faults : CallTrain(df, fault)
    \/ \E X \in Tables : CallPredict(X)
    \/ CallSaveModel
    \/ CallLoadModel

SpecModel == InitModel /\ [][NextModel]_vars

\* The application: the process starts, requests arrive, and calls are made
\* on the two global instances.
NextApp ==
    \/ \E track \in BOOLEAN : ProcessStart(track)
    \/ \E df \in PipelineOutputs, etl_ok \in BOOLEAN, f1 \in Faults,
          f2 \in {"none", "split", "fit"} : TrainModelsRequest(df, etl_ok, f1, f2)
    \/ \E X \in Tables : PredictChurnRequest(X)
    \/ \E X \in Tables : PredictClvRequest(X)
    \/ \E df \in Tables, fault \in Faults : CallTrain(df, fault)
    \/ \E X \in Tables : CallPredict(X)
    \/ CallLoadModel
    \/ ClvConstruct
    \/ \E df \in Tables : CallClvPrepareFeatures(df)
    \/ \E df \in Tables, fault \in {"none", "split", "fit"} : CallClvTrain(df, fault)
    \/ \E X \in Tables : CallClvPredict(X)
    \/ CallClvSaveOrLoadModel

SpecApp == InitModel /\ [][NextApp]_vars


(***************************************************************************)
(* Part IV (SpecUsage): extract_usage_data and transform_features as       *)
(* functions of the usage_metrics table and of the customer extract.       *)
(* Decimal values are held in units of 1/Scale, the precision round(4)     *)
(* keeps; tenure_days is a whole number of days.                           *)
(***************************************************************************)

\* .round(4): four decimals.
Scale == 10000

\* Rows usage_metrics may hold.  Customer 1 has a day without logins and a
\* day with one login, and two rows of the same metric_date; customer 2 has
\* support tickets.
UsageRecords ==
    { [customer_id |-> 1, metric_date |-> 1, login_count |-> 0,
       session_duration_minutes |-> 3, support_tickets |-> 1],
      [customer_id |-> 1, metric_date |-> 2, login_count |-> 1,
       session_duration_minutes |-> 3, support_tickets |-> 0],
      [customer_id |-> 1, metric_date |-> 2, login_count |-> 0,
       session_duration_minutes |-> 0, support_tickets |-> 0],
      [customer_id |-> 2, metric_date |-> 1, login_count |-> 2,
       session_duration_minutes |-> 4, support_tickets |-> 2] }

\* The customer_ids argument: absent (None), or a list of ids.
IdLists == { << >>, <<1>>, <<2>>, <<2, 1>> }
UsageArgs ==
    { [given |-> FALSE, ids |-> << >>] } \cup
    { [given |-> TRUE, ids |-> l] : l \in IdLists }

\* customer_df with tenure_days = (now - signup_date).days already taken:
\* a signup today (0), a signup in the future (negative), a customer
\* extracted twice.
CustomerExtracts ==
    { << [customer_id |-> 1, tenure_days |-> 3] >>,
      << [customer_id |-> 1, tenure_days |-> 0],
         [customer_id |-> 2, tenure_days |-> -2] >>,
      << [customer_id |-> 2, tenure_days |-> 3],
         [customer_id |-> 2, tenure_days |-> 3] >>,
      << [customer_id |-> 1, tenure_days |-> -2] >> }

\* "if customer_ids:" adds the WHERE clause; None and the empty list do not.
Selected(arg, table) ==
    IF arg.given /\ arg.ids # << >>
    THEN { r \in table : r.customer_id \in Range(arg.ids) }
    ELSE table

\* ORDER BY customer_id, metric_date
UsageOrdered(q) ==
    \A i \in 1..Len(q), j \in 1..Len(q) :
        i < j => \/ q[i].customer_id < q[j].customer_id
                 \/ /\ q[i].customer_id = q[j].customer_id
                    /\ q[i].metric_date <= q[j].metric_date

\* The orders in which the query may return a set of rows: rows equal in
\* both sort keys come in any order.
OrderBy(rows) ==
    { q \in [1..Cardinality(rows) -> rows] : Range(q) = rows /\ UsageOrdered(q) }

Abs(x) == IF x < 0 THEN -x ELSE x

\* n / d rounded to the nearest unit.
RoundDiv(n, d) ==
    LET q == (2 * Abs(n) + Abs(d)) \div (2 * Abs(d))
    IN IF (n < 0) # (d < 0) THEN 0 - q ELSE q

\* usage_df.groupby('customer_id'): the rows of one customer.
UsageOf(udf, c) == SelectSeq(udf, LAMBDA r : r.customer_id = c)

RECURSIVE SumOf(_, _)
SumOf(q, col) == IF q = << >> THEN 0 ELSE Head(q)[col] + SumOf(Tail(q), col)

\* The 'sum' and 'mean' aggregates, rounded to four decimals.
AggSum(q, col) == SumOf(q, col) * Scale
AggMean(q, col) == RoundDiv(SumOf(q, col) * Scale, Len(q))

\* Series.replace(0, 1): only the value 0 is substituted.
ClampedDenominator(x, one) == IF x < one THEN one ELSE x
Denominator(x, one) == IF x = 0 THEN one ELSE x

AggColumns == {"login_count_mean", "login_count_sum",
               "session_duration_minutes_mean", "support_tickets_sum"}
DerivedColumns == {"avg_session_per_login", "support_ticket_rate"}

\* One row of features_df.  The aggregates of a customer without usage rows
\* are NaN after the left merge and fillna(0) makes them 0 -- in the numeric
\* columns only: when usage_df has no row at all the aggregate columns are
\* of dtype object, fillna skips them, and they and the ratios built from
\* them stay NaN (na names the NaN columns of the row).
FeatureRow(cust, udf) ==
    LET q == UsageOf(udf, cust.customer_id)
        has == q # << >>
        lm == IF has THEN AggMean(q, "login_count") ELSE 0
        ls == IF has THEN AggSum(q, "login_count") ELSE 0
        sm == IF has THEN AggMean(q, "session_duration_minutes") ELSE 0
        ts == IF has THEN AggSum(q, "support_tickets") ELSE 0
    IN IF udf = << >>
       THEN [customer_id |-> cust.customer_id, tenure_days |-> cust.tenure_days,
             login_count_mean |-> 0, login_count_sum |-> 0,
             session_duration_minutes_mean |-> 0, support_tickets_sum |-> 0,
             avg_session_per_login |-> 0, support_ticket_rate |-> 0,
             na |-> AggColumns \cup DerivedColumns]
       ELSE [customer_id |-> cust.customer_id, tenure_days |-> cust.tenure_days,
             login_count_mean |-> lm, login_count_sum |-> ls,
             session_duration_minutes_mean |-> sm, support_tickets_sum |-> ts,
             avg_session_per_login |-> RoundDiv(sm * Scale, Denominator(lm, Scale)),
             support_ticket_rate |->
                 RoundDiv(ts * 30, Denominator(cust.tenure_days, 1)),
             na |-> {}]

\* customer_df.merge(usage_agg, on='customer_id', how='left') and the derived
\* columns: one row per row of customer_df, in its order.
FeatureRows(cdf, udf) == [k \in 1..Len(cdf) |-> FeatureRow(cdf[k], udf)]

InitUsage ==
    /\ customers = {}
    /\ churn_events = NoEvents
    /\ feature_store = {}
    /\ today = 1
    /\ pc = [w \in Requests |-> "idle"]
    /\ customer_df = [w \in Requests |-> << >>]
    /\ features_df = [w \in Requests |-> << >>]
    /\ current_date = [w \in Requests |-> 0]
    /\ txSnapshot = [w \in Requests |-> {}]
    /\ txDeleted = [w \in Requests |-> {}]
    /\ txInserted = [w \in Requests |-> {}]
    /\ response = [w \in Requests |-> NoResponse]
    /\ run = [w \in Requests |-> 0]
    /\ nRuns = 0
    /\ overlapped = [w \in Requests |-> FALSE]
    /\ lastCommit = NoCommit
    /\ rolledBack = FALSE
    /\ customer_list = NoList
    /\ InitModelVars
    /\ InitUsageVars

outsideUsage == <<etlVars, extractVars, modelVars>>

\* A row is written to usage_metrics (by the application's metering).
RecordUsage(r) ==
    /\ r \notin usage_metrics
    /\ usage_metrics' = usage_metrics \cup {r}
    /\ UNCHANGED <<usage_df, feature_table, outsideUsage>>

\* extract_usage_data(customer_ids)
ExtractUsageData(arg) ==
    /\ \E q \in OrderBy(Selected(arg, usage_metrics)) :
          usage_df' = [given |-> arg.given, ids |-> arg.ids, rows |-> q]
    /\ UNCHANGED <<usage_metrics, feature_table, outsideUsage>>

\* transform_features(customer_df, usage_df) on the last usage extract.  On
\* object columns .round(4) either returns them as they are or raises
\* TypeError, depending on the pandas release.
TransformFeatures(cdf, round_raises) ==
    /\ round_raises => usage_df.rows = << >>
    /\ feature_table' =
          IF round_raises
          THEN [status |-> "error", customer_df |-> cdf, rows |-> << >>]
          ELSE [status |-> "ok", customer_df |-> cdf,
                rows |-> FeatureRows(cdf, usage_df.rows)]
    /\ UNCHANGED <<usage_metrics, usage_df, outsideUsage>>

NextUsage ==
    \/ \E r \in UsageRecords : RecordUsage(r)
    \/ \E arg \in UsageArgs : ExtractUsageData(arg)
    \/ \E cdf \in CustomerExtracts, round_raises \in BOOLEAN :
          TransformFeatures(cdf, round_raises)

SpecUsage == InitUsage /\ [][NextUsage]_vars


(***************************************************************************)
(* Claims on the feature store (SpecETL).                                  *)
(***************************************************************************)

\* C1: two load_features runs in sequence on the same date leave, for that
\* date, exactly the rows of the second run: as many rows as the second
\* run's feature table has, none of them written by the first run.  Stated
\* for the last committed run whenever no other transaction was open during
\* its own.
C1_SecondRunReplacesFirst ==
    (lastCommit.run # 0 /\ lastCommit.seq) =>
        LET rows == RowsOn(feature_store, lastCommit.date)
        IN /\ Cardinality(rows) = lastCommit.rows
           /\ \A x \in rows : x.run = lastCommit.run

\* A second run has committed, in sequence, on a date for which the first
\* run's rows were stored, and it wrote two rows.
C1_Witness ==
    /\ lastCommit.run = 2
    /\ lastCommit.seq
    /\ lastCommit.replaced
    /\ lastCommit.rows = 2

\* C2: at most one snapshot row per (customer_id, feature_date), and exactly
\* one for every customer of the last committed run on its date.  Stated for
\* stores whose rows all come from feature tables with one row per customer,
\* so that a violation is one of the delete-then-insert itself.
C2_OneSnapshotPerCustomerDate ==
    (\A x, y \in feature_store :
        (x.run = y.run /\ x.customer_id = y.customer_id) => x = y)
    =>
    /\ \A x, y \in feature_store :
          (x.customer_id = y.customer_id /\ x.feature_date = y.feature_date)
              => x = y
    /\ lastCommit.run # 0 =>
          \A x \in feature_store :
              x.run = lastCommit.run =>
                  Cardinality(RowsOf(feature_store, x.customer_id,
                                     lastCommit.date)) = 1

\* C3 as claimed: when the insert fails after the DELETE has removed today's
\* rows, the snapshot for that date is left empty and the caller gets the error.
C3_InsertFailureLeavesEmpty ==
    [][\A w \in Requests :
          (pc[w] = "load_insert" /\ pc'[w] = "idle" /\ txDeleted[w] # {}) =>
              /\ RowsOn(feature_store', current_date[w]) = {}
              /\ response'[w] = "error"]_vars

\* C3 amended: when the insert fails after the DELETE, the connection is
\* closed without a commit and the transaction is rolled back: feature_store
\* holds the rows it held before, the deleted rows among them, none of the
\* failed run; the caller gets the error.
C3_InsertFailureRollsBack ==
    [][\A w \in Requests :
          (pc[w] = "load_insert" /\ pc'[w] = "idle") =>
              /\ feature_store' = feature_store
              /\ txDeleted[w] \subseteq feature_store'
              /\ \A x \in feature_store' : x.run # run[w]
              /\ response'[w] = "error"]_vars

\* An insert has failed after its DELETE had removed stored rows, and the
\* store still holds rows.
C3_Witness ==
    /\ rolledBack
    /\ feature_store # {}
    /\ \E w \in Requests : response[w] = "error"

(***************************************************************************)
(* Claims on the extract (SpecExtract).                                    *)
(***************************************************************************)

\* C4: extract_customer_data without a date filter returns exactly one row
\* per customer, with churned = 1 iff the customer has a churn_events row.
C4_OneRowPerCustomer ==
    LET df == customer_list.rows
        RowsFor(c) == { k \in 1..Len(df) : df[k].customer_id = c }
    IN /\ customer_list.count = Cardinality(customer_list.customers)
       /\ \A c \in customer_list.customers :
             /\ Cardinality(RowsFor(c)) = 1
             /\ \A k \in RowsFor(c) :
                   (df[k].churned = 1) <=> (customer_list.churn_events[c] >= 1)

(***************************************************************************)
(* Claims on the predictors (SpecModel, SpecApp).                          *)
(***************************************************************************)

C6_TrainPersistsBothModels ==
    [][/\ \A df \in PipelineOutputs, f1 \in Faults, f2 \in Faults :
             (/\ TrainModelsRequest(df, TRUE, f1, f2)
              /\ churn_model.exists /\ clv_model.exists
              /\ ChurnTrain(churn_model, df, f1).res.status = "ok"
              /\ ClvTrain(clv_model, df, f2).res.status = "ok") =>
                 (out'.status = "ok" /\ files'.churn.exists /\ files'.clv.exists)
       /\ (ProcessStart(TRUE) /\ bothTrained) =>
             (churn_model'.is_trained /\ clv_model'.is_trained)]_vars

\* C7: load_model after save_model gives the loading instance the model,
\* scaler, feature_columns and model_type the saving instance had, sets
\* is_trained, and predict then returns on every input what the saving
\* instance returned.
C7_SaveLoadRoundTrip ==
    [][(CallLoadModel /\ files.churn.exists) =>
          /\ churn_model'.model = saved.model
          /\ churn_model'.scaler = saved.scaler
          /\ churn_model'.feature_columns = saved.feature_columns
          /\ churn_model'.model_type = saved.model_type
          /\ churn_model'.is_trained
          /\ \A X \in Tables : ChurnPredict(churn_model', X) = ChurnPredict(saved, X)]_vars

\* A scaled model has been loaded and saved artifact and instance agree.
C7_Witness ==
    /\ out.detail = "Model loaded from"
    /\ churn_model.model_type = "logistic_regression"
    /\ churn_model.scaler.fitted
    /\ churn_model = saved

\* C8 as claimed: train on an instance with an unsupported model_type fails
\* with the error naming the type, and leaves the instance untrained with no
\* estimator.
C8_UnknownTypeErrorNamesType ==
    [][\A df \in Tables, fault \in Faults :
          (CallTrain(df, fault) /\ churn_model.model_type \notin ValidTypes) =>
              /\ out'.status = "error"
              /\ out'.err = "Unsupported model type"
              /\ out'.detail = churn_model.model_type
              /\ ~churn_model'.is_trained
              /\ churn_model'.model = NoEstimator]_vars

\* C8 amended: the constructor accepts any model_type; every train call on an
\* instance with an unsupported model_type fails, and the error is the one
\* naming the type whenever the call gets as far as create_model (tracking
\* started, churned column present, split done); while model_type is
\* unsupported the instance is untrained and holds no estimator.
C8_UnknownTypeNeverTrains ==
    /\ [](churn_model.model_type \notin ValidTypes =>
             (~churn_model.is_trained /\ churn_model.model = NoEstimator))
    /\ [][/\ \A mt \in TypeInputs : Construct(mt, TRUE) => out'.status = "ok"
          /\ \A df \in Tables, fault \in Faults :
                (CallTrain(df, fault) /\ churn_model.model_type \notin ValidTypes) =>
                    /\ out'.status = "error"
                    /\ ("churned" \in Range(df.cols)
                           /\ fault \notin {"start_run", "split"}) =>
                          (/\ out'.err = "Unsupported model type"
                           /\ out'.detail = churn_model.model_type)]_vars

\* train has just failed naming the unsupported type "svm".
C8_Witness ==
    /\ out.err = "Unsupported model type"
    /\ out.detail = "svm"
    /\ churn_model.model_type = "svm"
    /\ ~churn_model.is_trained

\* C9: train on a table without a churned column fails before an estimator
\* is created or fitted (model and scaler are left as they were) and does not
\* set is_trained.
C9_TrainWithoutTargetFails ==
    [][\A df \in Tables, fault \in Faults :
          (CallTrain(df, fault) /\ "churned" \notin Range(df.cols)) =>
              /\ out'.status = "error"
              /\ fault # "start_run" => out'.detail = NoTargetMessage
              /\ churn_model'.model = churn_model.model
              /\ churn_model'.scaler = churn_model.scaler
              /\ churn_model'.is_trained = churn_model.is_trained]_vars

\* train has just failed for the missing target on a fresh instance.
C9_Witness ==
    /\ out.detail = NoTargetMessage
    /\ churn_model.model = NoEstimator
    /\ ~churn_model.is_trained
    /\ churn_model.feature_columns # NoColumns

\* C10: predict on a trained model, whatever feature values or feature
\* columns the input lacks, selects the training columns in training order,
\* fills what is missing with zero and returns one probability per row.
C10_PredictImputesMissing ==
    [][\A X \in Tables :
          (/\ CallPredict(X)
           /\ churn_model.is_trained
           /\ churn_model.model.fitted
           /\ churn_model.model.cols = churn_model.feature_columns
           /\ churn_model.model_type \in ScaledTypes =>
                 (churn_model.scaler.fitted
                    /\ churn_model.scaler.cols = churn_model.feature_columns)) =>
              /\ out'.status = "ok"
              /\ out'.value.n = X.nrows
              /\ out'.value.cols = churn_model.feature_columns]_vars

(***************************************************************************)
(* Claims on the usage extract and the feature table (SpecUsage).          *)
(***************************************************************************)

\* C11: transform_features returns one feature row per row of the customer
\* extract, whatever the usage table holds, and a customer without usage
\* rows has 0 in every usage aggregate column and avg_session_per_login = 0.
C11_OneRowPerCustomerZeroFilled ==
    [][\A cdf \in CustomerExtracts, round_raises \in BOOLEAN :
          TransformFeatures(cdf, round_raises) =>
              /\ feature_table'.status = "ok"
              /\ Len(feature_table'.rows) = Len(cdf)
              /\ \A k \in 1..Len(cdf) :
                    LET r == feature_table'.rows[k]
                    IN /\ r.customer_id = cdf[k].customer_id
                       /\ UsageOf(usage_df.rows, cdf[k].customer_id) = << >> =>
                             /\ r.na = {}
                             /\ r.login_count_mean = 0
                             /\ r.login_count_sum = 0
                             /\ r.session_duration_minutes_mean = 0
                             /\ r.support_tickets_sum = 0
                             /\ r.avg_session_per_login = 0]_vars

Max(a, b) == IF a < b THEN b ELSE a

\* C12 as claimed: in every feature row the ratios divide by the denominator
\* clamped below at 1: avg_session_per_login = session_duration_minutes_mean
\* / max(login_count_mean, 1), support_ticket_rate = support_tickets_sum /
\* max(tenure_days, 1) * 30.
C12_DenominatorClampedAtOne ==
    \A k \in 1..Len(feature_table.rows) :
        LET r == feature_table.rows[k]
        IN r.na = {} =>
              /\ r.avg_session_per_login =
                    RoundDiv(r.session_duration_minutes_mean * Scale,
                             Max(r.login_count_mean, Scale))
              /\ r.support_ticket_rate =
                    RoundDiv(r.support_tickets_sum * 30, Max(r.tenure_days, 1))

\* C12 amended: only a denominator equal to 0 is replaced by 1; any other
\* login_count_mean (also between 0 and 1) and any other tenure_days (also
\* negative) divides as it is, so the ratio times the denominator gives back
\* the numerator up to the rounding; NaN aggregates give NaN ratios.
C12_ZeroDenominatorReplaced ==
    \A k \in 1..Len(feature_table.rows) :
        LET r == feature_table.rows[k]
            lm == r.login_count_mean
            sm == r.session_duration_minutes_mean
            ts == r.support_tickets_sum
            t == r.tenure_days
        IN IF AggColumns \subseteq r.na
           THEN DerivedColumns \subseteq r.na
           ELSE /\ r.na = {}
                /\ lm = 0 => r.avg_session_per_login = sm
                /\ lm # 0 => 2 * Abs(r.avg_session_per_login * lm - sm * Scale) <= Abs(lm)
                /\ t = 0 => r.support_ticket_rate = ts * 30
                /\ t # 0 => 2 * Abs(r.support_ticket_rate * t - ts * 30) <= Abs(t)

\* A feature row with a login_count_mean strictly between 0 and 1 and one
\* with a negative tenure_days and support tickets.
C12_Witness ==
    /\ \E k \in 1..Len(feature_table.rows) :
          LET r == feature_table.rows[k]
          IN /\ r.na = {}
             /\ r.login_count_mean > 0 /\ r.login_count_mean < Scale
             /\ r.session_duration_minutes_mean > 0
    /\ \E k \in 1..Len(feature_table.rows) :
          LET r == feature_table.rows[k]
          IN r.na = {} /\ r.tenure_days < 0 /\ r.support_tickets_sum > 0

\* C13: extract_usage_data called with an id list (the empty list included)
\* returns exactly the usage records whose customer_id is in the list, and
\* without an id list all records, sorted by (customer_id, metric_date).
C13_ExactlyTheRequestedIds ==
    [][\A arg \in UsageArgs :
          ExtractUsageData(arg) =>
              /\ Range(usage_df'.rows) =
                    IF arg.given
                    THEN { r \in usage_metrics : r.customer_id \in Range(arg.ids) }
                    ELSE usage_metrics
              /\ Len(usage_df'.rows) = Cardinality(Range(usage_df'.rows))
              /\ UsageOrdered(usage_df'.rows)]_vars

(***************************************************************************)
(* Further claims on the predictors (SpecModel).                           *)
(***************************************************************************)

\* C14: a failure of an experiment-tracking call during train (starting the
\* run, logging) does not abort training: the call returns its metrics and
\* the instance ends trained, as it would with tracking available.
C14_TrackingFailureDoesNotAbort ==
    [][\A df \in Tables, fault \in {"start_run", "log"} :
          (CallTrain(df, fault)
             /\ ChurnTrain(churn_model, df, "none").res.status = "ok") =>
              (out'.status = "ok" /\ churn_model'.is_trained)]_vars

\* C15: after any sequence of train and load_model calls, predict applies
\* the stored scaler exactly when the stored estimator is of a type trained
\* on scaled features (logistic_regression, neural_network), and the scaler
\* it applies was fitted in the training that fitted the estimator.
C15_ScalerAppliedAsInTraining ==
    /\ [](churn_model.model.kind # "None" =>
             churn_model.model.kind = churn_model.model_type)
    /\ [][\A X \in Tables :
             (CallPredict(X) /\ out'.status = "ok") =>
                 /\ out'.value.scaled = (churn_model.model.kind \in ScaledTypes)
                 /\ out'.value.scaled =>
                       /\ churn_model.scaler.fitted
                       /\ churn_model.scaler.on = churn_model.model.on
                       /\ churn_model.scaler.cols = churn_model.model.cols]_vars

\* A scaled prediction has been returned by an instance holding a
\* logistic_regression estimator while the artifact on disk is of another
\* type.
C15_Witness ==
    /\ out.status = "ok"
    /\ out.value.scaled
    /\ out.value.n > 0
    /\ churn_model.model.kind = "logistic_regression"
    /\ files.churn.exists
    /\ files.churn.model_type = "random_forest"

\* C17: whenever is_trained is true, the stored estimator, scaler and
\* feature-column list come from the same successful train or load_model
\* call: the estimator is fitted on the columns of feature_columns, and so
\* is the scaler where one is used.
C17_TrainedStateConsistent ==
    churn_model.is_trained =>
        /\ churn_model.model.fitted
        /\ churn_model.model.cols = churn_model.feature_columns
        /\ churn_model.model_type \in ScaledTypes =>
              /\ churn_model.scaler.fitted
              /\ churn_model.scaler.cols = churn_model.feature_columns
              /\ churn_model.scaler.on = churn_model.model.on

(***************************************************************************)
(* Claim on the order of the pipeline steps (SpecETL).                     *)
(***************************************************************************)

\* The steps of run_etl_pipeline with load_features' statements, each with
\* the step that follows it.
C16_StepOrder ==
    { <<"idle", "extract_customers">>, <<"extract_customers", "extract_usage">>,
      <<"extract_usage", "transform">>, <<"transform", "load">>,
      <<"load", "load_delete">>, <<"load_delete", "load_insert">>,
      <<"load_insert", "load_commit">>, <<"load_commit", "loaded">>,
      <<"loaded", "idle">> }

\* C16: run_etl_pipeline runs extract customers, extract usage, transform,
\* load in that order, each once; it returns the feature table only after
\* load_features has committed the snapshot; when a step fails no later
\* step runs, nothing is retried and the caller gets the error.
C16_StepsInOrderNoRetry ==
    [][\A w \in Requests :
          /\ pc'[w] # pc[w] =>
                \/ <<pc[w], pc'[w]>> \in C16_StepOrder
                \/ /\ pc[w] \notin {"idle", "loaded"}
                   /\ pc'[w] = "idle"
                   /\ response'[w] = "error"
          /\ pc'[w] = pc[w] => response'[w] = response[w]
          /\ (pc[w] = "idle" /\ pc'[w] # "idle") =>
                (nRuns' = nRuns + 1 /\ response'[w] = NoResponse)
          /\ (pc[w] # "loaded" /\ pc'[w] = "loaded") =>
                /\ txInserted[w] \subseteq feature_store'
                /\ Cardinality(txInserted[w]) = Len(features_df[w])
                /\ txDeleted[w] \cap feature_store' = {}
          /\ (response'[w] = "success" /\ response[w] # "success") =>
                /\ pc[w] = "loaded"
                /\ txInserted[w] = {} /\ txDeleted[w] = {}
          /\ (response'[w] = "error" /\ response[w] # "error") =>
                /\ pc[w] \notin {"idle", "loaded"}
                /\ pc'[w] = "idle"
                /\ feature_store' = feature_store]_vars

\* One request has returned the feature table after its commit and the
\* other has failed.
C16_Witness ==
    /\ response["run_etl"] = "success"
    /\ response["train_models"] = "error"
    /\ pc["run_etl"] = "idle" /\ pc["train_models"] = "idle"
    /\ lastCommit.run # 0
    /\ feature_store # {}

====
